---- MODULE Spec2Model ----
(***************************************************************************)
(* State-machine model of the OddsEngine caching proxy.                    *)
(*                                                                         *)
(* The repository holds several generations of the same server; the       *)
(* variable `variant` says which file is running:                          *)
(*   "fixed"      railway-proxy-server-fixed.js (railway-proxy-server.js   *)
(*                has the same /v1 handler, statement for statement)       *)
(*   "middleware" unnamed/part_000: cacheMiddleware wrapped around /v1     *)
(*   "simple"     proxy.js: no cache, route /api/:version/:endpoint        *)
(*                                                                         *)
(* Strings that the code builds by concatenation (URLs, query strings)    *)
(* are sequences of tokens, so that equality of the sequences is equality  *)
(* of the strings.                                                         *)
(***************************************************************************)
EXTENDS Integers, Sequences, FiniteSets, TLC

VARIABLES
    variant,    \* which server file is running
    API_KEY,    \* process.env.ODDSENGINE_API_KEY, read once at start-up
    cache,      \* the Map: its DOMAIN is the set of stored keys
    now,        \* Date.now()
    reqs,       \* the inbound GET requests received so far, in arrival order
    lastClear,  \* history: how many POST /cache/clear ran, and what the
                \* latest one found (see ClearRecord)
    ticks,      \* history: number of clock advances so far
    exited,     \* TRUE once process.exit(0) has run
    exitCode    \* the argument of process.exit, -1 while the process runs

vars == <<variant, API_KEY, cache, now, reqs, lastClear, ticks, exited, exitCode>>

----------------------------------------------------------------------------
(* Bounds of the model *)

MaxReqs == 2
MaxTicks == 3
MaxClears == 1

----------------------------------------------------------------------------
(* JavaScript values *)

Undefined == "undefined"

\* JS truthiness of a string-or-undefined value: undefined and '' are falsy.
Truthy(v) == v # Undefined /\ v # ""

\* a || b
OrElse(a, b) == IF Truthy(a) THEN a ELSE b

Variants == {"fixed", "middleware", "simple"}

\* values process.env.ODDSENGINE_API_KEY can have
EnvKeys == {Undefined, "envkey"}

ODDSENGINE_BASE_URL == "https://api.oddsengine.dev"

CACHE_DURATION == 60 * 1000

\* The clock is observed at the instants around the expiry of an entry
\* stored at 0: 0, 59 999, 60 000, 60 001, then 120 000, ...
TickStep(n) == IF n % 3 = 0 THEN CACHE_DURATION - 1 ELSE 1

----------------------------------------------------------------------------
(* Inbound request lines.  pairs is the raw query: name, value tokens.     *)

InbPlain == [path |-> "/v1/X", pairs |-> << >>]
InbRepeat == [path |-> "/v1/X", pairs |-> << <<"a", <<"1">> >>, <<"a", <<"2">> >> >>]
InbComma == [path |-> "/v1/X", pairs |-> << <<"a", <<"1", ",", "2">> >> >>]

Inbounds == {InbPlain, InbRepeat, InbComma}

\* the inbound requests the clients send: request line and X-API-Key header
\* (absent, present, present and empty)
RequestShapes ==
    {[inb |-> InbPlain, hdr |-> "undefined"],
     [inb |-> InbPlain, hdr |-> "hdrkey"],
     [inb |-> InbPlain, hdr |-> ""],
     [inb |-> InbRepeat, hdr |-> "hdrkey"],
     [inb |-> InbComma, hdr |-> "undefined"]}

\* express's query parser (qs): a repeated name collects its values in an
\* array, in order; the result keeps the order of first appearance.
\* An entry is [name, vals]; one value is a string, several an array.
RECURSIVE QsParse(_)
QsParse(pairs) ==
    IF pairs = << >> THEN << >>
    ELSE LET n == Len(pairs)
             init == QsParse(SubSeq(pairs, 1, n - 1))
             last == pairs[n]
             at == {i \in 1..Len(init) : init[i].name = last[1]}
         IN IF at = {}
            THEN Append(init, [name |-> last[1], vals |-> <<last[2]>>])
            ELSE [i \in 1..Len(init) |->
                    IF i \in at
                    THEN [init[i] EXCEPT !.vals = Append(@, last[2])]
                    ELSE init[i]]

\* String(value) as URLSearchParams applies it to each property of the
\* object: a string is itself, an array is its elements joined by ",".
RECURSIVE JoinComma(_)
JoinComma(vals) ==
    IF Len(vals) = 1 THEN vals[1]
    ELSE JoinComma(SubSeq(vals, 1, Len(vals) - 1)) \o <<",">> \o vals[Len(vals)]

\* application/x-www-form-urlencoded byte serialisation of one token
FormEncode(t) == IF t = "," THEN "%2C" ELSE t

EncodeValue(v) == [i \in 1..Len(v) |-> FormEncode(v[i])]

\* new URLSearchParams(req.query).toString()
RECURSIVE SearchParamsToString(_)
SearchParamsToString(q) ==
    IF q = << >> THEN << >>
    ELSE LET n == Len(q)
             head == SearchParamsToString(SubSeq(q, 1, n - 1))
             item == <<q[n].name, "=">> \o EncodeValue(JoinComma(q[n].vals))
         IN IF head = << >> THEN item ELSE head \o <<"&">> \o item

\* `${ODDSENGINE_BASE_URL}${path}${queryString ? '?' + queryString : ''}`
UpstreamUrl(inb) ==
    LET queryString == SearchParamsToString(QsParse(inb.pairs))
    IN <<ODDSENGINE_BASE_URL, inb.path>>
         \o (IF queryString # << >> THEN <<"?">> \o queryString ELSE << >>)

\* req.originalUrl: the request line as the client sent it
RECURSIVE RawQuery(_)
RawQuery(pairs) ==
    IF pairs = << >> THEN << >>
    ELSE LET n == Len(pairs)
             head == RawQuery(SubSeq(pairs, 1, n - 1))
             item == <<pairs[n][1], "=">> \o pairs[n][2]
         IN IF head = << >> THEN item ELSE head \o <<"&">> \o item

OriginalUrl(inb) ==
    <<inb.path>> \o (IF inb.pairs # << >> THEN <<"?">> \o RawQuery(inb.pairs) ELSE << >>)

----------------------------------------------------------------------------
(* Upstream responses *)

\* statuses the upstream answers with; response.ok is 200..299
UpStatuses == {200, 429}

ResponseOk(status) == status >= 200 /\ status <= 299

\* the body could not be read (the connection broke while streaming it)
ReadFailure == "<read failure>"

\* body texts the upstream sends
BodyA == "{\"a\":1}"
BodyB == "{ \"a\": 2 }"
BodyHtml == "<html>"
BodyRetry == "{\"retry_after\":5}"

\* bodies the inputs draw from, by status class
BodiesFor(status) ==
    IF ResponseOk(status) THEN {BodyA, BodyB, BodyHtml} ELSE {BodyRetry, BodyHtml}

\* JSON.parse of a body text: ok with the parsed value, or a SyntaxError
JsonParse(text) ==
    CASE text = BodyA -> [ok |-> TRUE, value |-> [a |-> 1]]
      [] text = BodyB -> [ok |-> TRUE, value |-> [a |-> 2]]
      [] text = BodyRetry -> [ok |-> TRUE, value |-> [retry_after |-> 5]]
      [] OTHER -> [ok |-> FALSE, value |-> [a |-> 0]]

\* how the promise returned by fetch() settles
FetchOutcomes ==
    {[settled |-> "rejected", status |-> 0]}
      \cup {[settled |-> "resolved", status |-> s] : s \in UpStatuses}

----------------------------------------------------------------------------
Init ==
    /\ variant \in Variants
    /\ API_KEY \in EnvKeys
    /\ cache = << >>
    /\ now = 0
    /\ reqs = << >>
    /\ lastClear = [count |-> 0, n |-> 0, wiped |-> {}, inflight |-> {}]
    /\ ticks = 0
    /\ exited = FALSE
    /\ exitCode = -1

----------------------------------------------------------------------------
(* Requests and responses *)

\* an inbound request and its response object as express creates them;
\* allowOrigin is the Access-Control-Allow-Origin header of the response
BareRequest(inb, hdr) ==
    [inb |-> inb, hdr |-> hdr, pc |-> "start", issuedAt |-> now, lookup |-> "none",
     calls |-> 0, url |-> << >>, cred |-> Undefined, upStatus |-> 0,
     upBody |-> Undefined, sent |-> << >>, allowOrigin |-> Undefined]

\* a server whose routes are registered ahead of the cors middleware: the
\* route answers before the middleware is reached
CorsAfterRoutes(r) == r

\* app.use(cors(...)) with origin '*' (the default of cors()): the header is
\* set on the response before any route handler runs
Cors(r) == [r EXCEPT !.allowOrigin = "*"]

\* an inbound request as a route handler first sees it
NewRequest(inb, hdr) == Cors(BareRequest(inb, hdr))

\* history: how the cache lookup of the request went
Hit(r) == [r EXCEPT !.lookup = "hit"]
Miss(r) == [r EXCEPT !.lookup = "miss"]

\* res.status(status).json(body)
Send(r, status, body) ==
    [r EXCEPT !.sent = Append(@, [status |-> status, body |-> body])]

\* return res.status(status).json(body): the handler ends
Finish(r, status, body) == [Send(r, status, body) EXCEPT !.pc = "done"]

\* fetch(url, {headers: {'X-API-Key': apiKey}}): one upstream call.
\* node-fetch sends `${value}` for a header value, so an undefined key
\* goes out as the text "undefined".
CallUpstream(r, url, apiKey) ==
    [r EXCEPT !.pc = "fetch", !.calls = @ + 1, !.url = url, !.cred = apiKey]

\* history of a POST /cache/clear: the requests received so far, those whose
\* stored answers the clear removes, those still unanswered
ClearRecord ==
    [count |-> lastClear.count + 1,
     n |-> Len(reqs),
     wiped |-> {cache[k].by : k \in DOMAIN cache},
     inflight |-> {i \in 1..Len(reqs) : reqs[i].pc # "done"}]

\* a store that keeps the entry a key already has
CacheSetKeepFirst(key, data, i) ==
    [k \in DOMAIN cache \cup {key} |->
        IF k \in DOMAIN cache THEN cache[k]
        ELSE [data |-> data, timestamp |-> now, by |-> i]]

\* cache.set(key, {data, timestamp: Date.now()}); by records the writer
CacheSet(key, data, i) ==
    [k \in DOMAIN cache \cup {key} |->
        IF k = key THEN [data |-> data, timestamp |-> now, by |-> i] ELSE cache[k]]

\* the lookup without the age comparison: an entry never expires
IsFreshForever(key) == key \in DOMAIN cache

\* the lookup with the age comparison turned around
IsFreshReversed(key) ==
    key \in DOMAIN cache /\ now - cache[key].timestamp > CACHE_DURATION

\* the lookup with an entry of age exactly CACHE_DURATION still fresh
IsFreshInclusive(key) ==
    key \in DOMAIN cache /\ now - cache[key].timestamp <= CACHE_DURATION

\* cached && Date.now() - cached.timestamp < CACHE_DURATION
IsFresh(key) ==
    key \in DOMAIN cache /\ now - cache[key].timestamp < CACHE_DURATION

MissingKeyEnvelope ==
    [error |-> "missing_api_key",
     message |-> "API key required via X-API-Key header or ODDSENGINE_API_KEY env var"]

ApiErrorEnvelope(errorText, status) ==
    [error |-> "api_error", message |-> errorText, status |-> status]

\* the catch block answering with the kind of the branch above it
ProxyErrorAsApiError(message) == [error |-> "api_error", message |-> message]

ProxyErrorEnvelope(message) == [error |-> "proxy_error", message |-> message]

\* error.message of the failures the handler can meet
NetworkMessage == "request to upstream failed"
ReadMessage == "body stream failed"
JsonMessage == "invalid json response body"

----------------------------------------------------------------------------
(* railway-proxy-server-fixed.js *)

\* a handler that resolves the credential before it looks the cache up
FixedGetV1KeyFirst(inb, hdr) ==
    /\ variant = "fixed" /\ ~exited
    /\ LET cacheKey == UpstreamUrl(inb)
           apiKey == OrElse(hdr, API_KEY)
           r == NewRequest(inb, hdr)
       IN reqs' = Append(reqs,
            IF ~Truthy(apiKey) THEN Finish(Miss(r), 401, MissingKeyEnvelope)
            ELSE IF IsFresh(cacheKey) THEN Finish(Hit(r), 200, cache[cacheKey].data)
            ELSE CallUpstream(Miss(r), UpstreamUrl(inb), apiKey))
    /\ UNCHANGED <<variant, API_KEY, cache, now, lastClear, ticks, exited, exitCode>>

\* a lookup that deletes the entry it finds stale
FixedGetV1Evicts(inb, hdr) ==
    /\ variant = "fixed" /\ ~exited
    /\ LET cacheKey == UpstreamUrl(inb)
           apiKey == OrElse(hdr, API_KEY)
           r == NewRequest(inb, hdr)
       IN /\ reqs' = Append(reqs,
               IF IsFresh(cacheKey) THEN Finish(Hit(r), 200, cache[cacheKey].data)
               ELSE IF ~Truthy(apiKey) THEN Finish(Miss(r), 401, MissingKeyEnvelope)
               ELSE CallUpstream(Miss(r), UpstreamUrl(inb), apiKey))
          /\ cache' = IF IsFresh(cacheKey) THEN cache
                      ELSE [k \in DOMAIN cache \ {cacheKey} |-> cache[k]]
    /\ UNCHANGED <<variant, API_KEY, now, lastClear, ticks, exited, exitCode>>

\* app.get('/v1/*'), from the request's arrival to the first await
FixedGetV1(inb, hdr) ==
    /\ variant = "fixed" /\ ~exited
    /\ LET cacheKey == UpstreamUrl(inb)
           apiKey == OrElse(hdr, API_KEY)
           r == NewRequest(inb, hdr)
       IN reqs' = Append(reqs,
            IF IsFresh(cacheKey) THEN Finish(Hit(r), 200, cache[cacheKey].data)
            ELSE IF ~Truthy(apiKey) THEN Finish(Miss(r), 401, MissingKeyEnvelope)
            ELSE CallUpstream(Miss(r), UpstreamUrl(inb), apiKey))
    /\ UNCHANGED <<variant, API_KEY, cache, now, lastClear, ticks, exited, exitCode>>

\* a handler that fetches again when the fetch is rejected
FixedFetchSettledRetry(i) ==
    /\ variant = "fixed" /\ ~exited
    /\ i \in 1..Len(reqs) /\ reqs[i].pc = "fetch"
    /\ \E o \in FetchOutcomes :
         reqs' = [reqs EXCEPT ![i] =
            IF o.settled = "rejected"
            THEN CallUpstream(@, @.url, @.cred)
            ELSE [@ EXCEPT !.upStatus = o.status,
                           !.pc = IF ResponseOk(o.status) THEN "json" ELSE "text"]]
    /\ UNCHANGED <<variant, API_KEY, cache, now, lastClear, ticks, exited, exitCode>>

\* await fetch(...) settles; a rejection lands in the catch block
FixedFetchSettled(i) ==
    /\ variant = "fixed" /\ ~exited
    /\ i \in 1..Len(reqs) /\ reqs[i].pc = "fetch"
    /\ \E o \in FetchOutcomes :
         reqs' = [reqs EXCEPT ![i] =
            IF o.settled = "rejected"
            THEN Finish(@, 500, ProxyErrorEnvelope(NetworkMessage))
            ELSE [@ EXCEPT !.upStatus = o.status,
                           !.pc = IF ResponseOk(o.status) THEN "json" ELSE "text"]]
    /\ UNCHANGED <<variant, API_KEY, cache, now, lastClear, ticks, exited, exitCode>>

\* the !response.ok branch without its return: the api_error answer is
\* followed by response.json() on the consumed body, and the catch block
\* answers again
FixedTextSettledNoReturn(i) ==
    /\ variant = "fixed" /\ ~exited
    /\ i \in 1..Len(reqs) /\ reqs[i].pc = "text"
    /\ \E b \in BodiesFor(reqs[i].upStatus) \cup {ReadFailure} :
         reqs' = [reqs EXCEPT ![i] =
            IF b = ReadFailure
            THEN Finish([@ EXCEPT !.upBody = b], 500, ProxyErrorEnvelope(ReadMessage))
            ELSE Finish(Send([@ EXCEPT !.upBody = b], @.upStatus,
                             ApiErrorEnvelope(b, @.upStatus)),
                        500, ProxyErrorEnvelope(ReadMessage))]
    /\ UNCHANGED <<variant, API_KEY, cache, now, lastClear, ticks, exited, exitCode>>

\* await response.text() settles on the !response.ok path
FixedTextSettled(i) ==
    /\ variant = "fixed" /\ ~exited
    /\ i \in 1..Len(reqs) /\ reqs[i].pc = "text"
    /\ \E b \in BodiesFor(reqs[i].upStatus) \cup {ReadFailure} :
         reqs' = [reqs EXCEPT ![i] =
            IF b = ReadFailure
            THEN Finish([@ EXCEPT !.upBody = b], 500, ProxyErrorEnvelope(ReadMessage))
            ELSE Finish([@ EXCEPT !.upBody = b], @.upStatus,
                        ApiErrorEnvelope(b, @.upStatus))]
    /\ UNCHANGED <<variant, API_KEY, cache, now, lastClear, ticks, exited, exitCode>>

\* await response.json() settles; on success the entry is written, then sent
FixedJsonSettled(i) ==
    /\ variant = "fixed" /\ ~exited
    /\ i \in 1..Len(reqs) /\ reqs[i].pc = "json"
    /\ \E b \in BodiesFor(reqs[i].upStatus) \cup {ReadFailure} :
         LET r == [reqs[i] EXCEPT !.upBody = b]
             data == JsonParse(b)
             cacheKey == UpstreamUrl(r.inb)
         IN IF b = ReadFailure
            THEN /\ reqs' = [reqs EXCEPT ![i] =
                        Finish(r, 500, ProxyErrorEnvelope(ReadMessage))]
                 /\ cache' = cache
            ELSE IF ~data.ok
            THEN /\ reqs' = [reqs EXCEPT ![i] =
                        Finish(r, 500, ProxyErrorEnvelope(JsonMessage))]
                 /\ cache' = cache
            ELSE /\ cache' = CacheSet(cacheKey, data.value, i)
                 /\ reqs' = [reqs EXCEPT ![i] = Finish(r, 200, data.value)]
    /\ UNCHANGED <<variant, API_KEY, now, lastClear, ticks, exited, exitCode>>

\* the inbound line of GET /health
InbHealth == [path |-> "/health", pairs |-> << >>]

\* a health answer that counts only the entries a lookup would still serve
HealthBodyFresh ==
    [status |-> "healthy",
     cache_size |-> Cardinality({k \in DOMAIN cache : IsFresh(k)}),
     api_key_configured |-> Truthy(API_KEY)]

\* the body of the health answer; timestamp and port, which do not depend
\* on the cache, are left out
HealthBody ==
    [status |-> "healthy",
     cache_size |-> Cardinality(DOMAIN cache),
     api_key_configured |-> Truthy(API_KEY)]

\* app.get('/health')
FixedHealth ==
    /\ variant = "fixed" /\ ~exited
    /\ reqs' = Append(reqs, Finish(NewRequest(InbHealth, Undefined), 200, HealthBody))
    /\ UNCHANGED <<variant, API_KEY, cache, now, lastClear, ticks, exited, exitCode>>

\* a clear that answers without emptying the store
FixedCacheClearKeeps ==
    /\ variant = "fixed" /\ ~exited
    /\ lastClear.count < MaxClears
    /\ lastClear' = ClearRecord
    /\ UNCHANGED <<variant, API_KEY, cache, now, reqs, ticks, exited, exitCode>>

\* app.post('/cache/clear')
FixedCacheClear ==
    /\ variant = "fixed" /\ ~exited
    /\ lastClear.count < MaxClears
    /\ cache' = << >>
    /\ lastClear' = ClearRecord
    /\ UNCHANGED <<variant, API_KEY, now, reqs, ticks, exited, exitCode>>

\* a shutdown that exits without clearing the store
FixedSigtermKeeps ==
    /\ variant = "fixed" /\ ~exited
    /\ exited' = TRUE
    /\ exitCode' = 0
    /\ UNCHANGED <<variant, API_KEY, cache, now, reqs, lastClear, ticks>>

\* process.on('SIGTERM'): cache.clear(); process.exit(0)
FixedSigterm ==
    /\ variant = "fixed" /\ ~exited
    /\ cache' = << >>
    /\ exited' = TRUE
    /\ exitCode' = 0
    /\ UNCHANGED <<variant, API_KEY, now, reqs, lastClear, ticks>>

----------------------------------------------------------------------------
(* unnamed/part_000: the same proxy with the cache in a middleware *)

\* res.json as cacheMiddleware replaces it on a miss: every body the handler
\* sends is stored under the request's originalUrl, then sent.
WrappedJson(r, i, status, body) ==
    /\ cache' = CacheSet(OriginalUrl(r.inb), body, i)
    /\ reqs' = [reqs EXCEPT ![i] = Finish(r, status, body)]

\* cacheMiddleware, then on a miss the handler up to its first await
MiddlewareGetV1(inb, hdr) ==
    /\ variant = "middleware" /\ ~exited
    /\ LET key == OriginalUrl(inb)
           r == NewRequest(inb, hdr)
       IN reqs' = Append(reqs,
            IF IsFresh(key) THEN Finish(Hit(r), 200, cache[key].data)
            ELSE CallUpstream(Miss(r), UpstreamUrl(inb), API_KEY))
    /\ UNCHANGED <<variant, API_KEY, cache, now, lastClear, ticks, exited, exitCode>>

MiddlewareFetchSettled(i) ==
    /\ variant = "middleware" /\ ~exited
    /\ i \in 1..Len(reqs) /\ reqs[i].pc = "fetch"
    /\ \E o \in FetchOutcomes :
         IF o.settled = "rejected"
         THEN WrappedJson(reqs[i], i, 500, ProxyErrorEnvelope(NetworkMessage))
         ELSE /\ reqs' = [reqs EXCEPT ![i] =
                    [@ EXCEPT !.upStatus = o.status,
                              !.pc = IF ResponseOk(o.status) THEN "json" ELSE "text"]]
              /\ cache' = cache
    /\ UNCHANGED <<variant, API_KEY, now, lastClear, ticks, exited, exitCode>>

MiddlewareTextSettled(i) ==
    /\ variant = "middleware" /\ ~exited
    /\ i \in 1..Len(reqs) /\ reqs[i].pc = "text"
    /\ \E b \in BodiesFor(reqs[i].upStatus) \cup {ReadFailure} :
         LET r == [reqs[i] EXCEPT !.upBody = b]
         IN IF b = ReadFailure
            THEN WrappedJson(r, i, 500, ProxyErrorEnvelope(ReadMessage))
            ELSE WrappedJson(r, i, r.upStatus, ApiErrorEnvelope(b, r.upStatus))
    /\ UNCHANGED <<variant, API_KEY, now, lastClear, ticks, exited, exitCode>>

MiddlewareJsonSettled(i) ==
    /\ variant = "middleware" /\ ~exited
    /\ i \in 1..Len(reqs) /\ reqs[i].pc = "json"
    /\ \E b \in BodiesFor(reqs[i].upStatus) \cup {ReadFailure} :
         LET r == [reqs[i] EXCEPT !.upBody = b]
             data == JsonParse(b)
         IN IF b = ReadFailure
            THEN WrappedJson(r, i, 500, ProxyErrorEnvelope(ReadMessage))
            ELSE IF ~data.ok
            THEN WrappedJson(r, i, 500, ProxyErrorEnvelope(JsonMessage))
            ELSE WrappedJson(r, i, 200, data.value)
    /\ UNCHANGED <<variant, API_KEY, now, lastClear, ticks, exited, exitCode>>

\* app.post('/cache/clear')
MiddlewareCacheClear ==
    /\ variant = "middleware" /\ ~exited
    /\ lastClear.count < MaxClears
    /\ cache' = << >>
    /\ lastClear' = ClearRecord
    /\ UNCHANGED <<variant, API_KEY, now, reqs, ticks, exited, exitCode>>

\* process.on('SIGTERM')
MiddlewareSigterm ==
    /\ variant = "middleware" /\ ~exited
    /\ cache' = << >>
    /\ exited' = TRUE
    /\ exitCode' = 0
    /\ UNCHANGED <<variant, API_KEY, now, reqs, lastClear, ticks>>

----------------------------------------------------------------------------
(* proxy.js: no cache; the route is /api/:version/:endpoint *)

HeaderRequiredEnvelope == [error |-> "X-API-Key header required"]

\* {error: `OddsEngine API returned ${response.status}`, details: errorText}
ReturnedEnvelope(errorText, status) ==
    [error |-> "OddsEngine API returned", returned |-> status, details |-> errorText]

ServerErrorEnvelope(message) == [error |-> "Proxy server error", message |-> message]

SimpleGet(inb, hdr) ==
    /\ variant = "simple" /\ ~exited
    /\ LET apiKey == hdr
           r == NewRequest(inb, hdr)
       IN reqs' = Append(reqs,
            IF ~Truthy(apiKey) THEN Finish(r, 401, HeaderRequiredEnvelope)
            ELSE CallUpstream(r, UpstreamUrl(inb), apiKey))
    /\ UNCHANGED <<variant, API_KEY, cache, now, lastClear, ticks, exited, exitCode>>

SimpleFetchSettled(i) ==
    /\ variant = "simple" /\ ~exited
    /\ i \in 1..Len(reqs) /\ reqs[i].pc = "fetch"
    /\ \E o \in FetchOutcomes :
         reqs' = [reqs EXCEPT ![i] =
            IF o.settled = "rejected"
            THEN Finish(@, 500, ServerErrorEnvelope(NetworkMessage))
            ELSE [@ EXCEPT !.upStatus = o.status,
                           !.pc = IF ResponseOk(o.status) THEN "json" ELSE "text"]]
    /\ UNCHANGED <<variant, API_KEY, cache, now, lastClear, ticks, exited, exitCode>>

SimpleTextSettled(i) ==
    /\ variant = "simple" /\ ~exited
    /\ i \in 1..Len(reqs) /\ reqs[i].pc = "text"
    /\ \E b \in BodiesFor(reqs[i].upStatus) \cup {ReadFailure} :
         reqs' = [reqs EXCEPT ![i] =
            IF b = ReadFailure
            THEN Finish([@ EXCEPT !.upBody = b], 500, ServerErrorEnvelope(ReadMessage))
            ELSE Finish([@ EXCEPT !.upBody = b], @.upStatus,
                        ReturnedEnvelope(b, @.upStatus))]
    /\ UNCHANGED <<variant, API_KEY, cache, now, lastClear, ticks, exited, exitCode>>

SimpleJsonSettled(i) ==
    /\ variant = "simple" /\ ~exited
    /\ i \in 1..Len(reqs) /\ reqs[i].pc = "json"
    /\ \E b \in BodiesFor(reqs[i].upStatus) \cup {ReadFailure} :
         LET r == [reqs[i] EXCEPT !.upBody = b]
             data == JsonParse(b)
         IN reqs' = [reqs EXCEPT ![i] =
              IF b = ReadFailure THEN Finish(r, 500, ServerErrorEnvelope(ReadMessage))
              ELSE IF ~data.ok THEN Finish(r, 500, ServerErrorEnvelope(JsonMessage))
              ELSE Finish(r, 200, data.value)]
    /\ UNCHANGED <<variant, API_KEY, cache, now, lastClear, ticks, exited, exitCode>>

----------------------------------------------------------------------------
(* The clock *)

\* Date.now() read later returns a later time
Tick ==
    /\ ~exited
    /\ ticks < MaxTicks
    /\ now' = now + TickStep(ticks)
    /\ ticks' = ticks + 1
    /\ UNCHANGED <<variant, API_KEY, cache, reqs, lastClear, exited, exitCode>>

----------------------------------------------------------------------------
\* The steps of each server, for clients sending the requests `shapes`,
\* at most n of them.
FixedStep(shapes, n) ==
    \/ \E q \in shapes : Len(reqs) < n /\ FixedGetV1(q.inb, q.hdr)
    \/ \E i \in 1..n : FixedFetchSettled(i)
    \/ \E i \in 1..n : FixedTextSettled(i)
    \/ \E i \in 1..n : FixedJsonSettled(i)
    \/ FixedCacheClear
    \/ FixedSigterm

MiddlewareStep(shapes, n) ==
    \/ \E q \in shapes : Len(reqs) < n /\ MiddlewareGetV1(q.inb, q.hdr)
    \/ \E i \in 1..n : MiddlewareFetchSettled(i)
    \/ \E i \in 1..n : MiddlewareTextSettled(i)
    \/ \E i \in 1..n : MiddlewareJsonSettled(i)
    \/ MiddlewareCacheClear
    \/ MiddlewareSigterm

SimpleStep(shapes, n) ==
    \/ \E q \in shapes : Len(reqs) < n /\ SimpleGet(q.inb, q.hdr)
    \/ \E i \in 1..n : SimpleFetchSettled(i)
    \/ \E i \in 1..n : SimpleTextSettled(i)
    \/ \E i \in 1..n : SimpleJsonSettled(i)

Next ==
    \/ FixedStep(RequestShapes, MaxReqs)
    \/ MiddlewareStep(RequestShapes, MaxReqs)
    \/ SimpleStep(RequestShapes, MaxReqs)
    \/ Tick

Spec == Init /\ [][Next]_vars

(* Three requests for one key on the fixed server: the races around a clear *)

MaxRaceReqs == 3

RaceShapes == {[inb |-> InbPlain, hdr |-> "hdrkey"]}

RaceInit == Init /\ variant = "fixed"

RaceNext ==
    \/ FixedStep(RaceShapes, MaxRaceReqs)
    \/ Tick

SpecRace == RaceInit /\ [][RaceNext]_vars

(* The fixed server with requests for two keys and GET /health *)

MaxHealthReqs == 3
MaxHealthTicks == 2

HealthShapes ==
    {[inb |-> InbPlain, hdr |-> "hdrkey"], [inb |-> InbRepeat, hdr |-> "hdrkey"]}

HealthInit == Init /\ variant = "fixed"

\* no termination signal arrives
HealthNext ==
    \/ \E q \in HealthShapes : Len(reqs) < MaxHealthReqs /\ FixedGetV1(q.inb, q.hdr)
    \/ \E i \in 1..MaxHealthReqs : FixedFetchSettled(i)
    \/ \E i \in 1..MaxHealthReqs : FixedTextSettled(i)
    \/ \E i \in 1..MaxHealthReqs : FixedJsonSettled(i)
    \/ Len(reqs) < MaxHealthReqs /\ FixedHealth
    \/ FixedCacheClear
    \/ ticks < MaxHealthTicks /\ Tick

SpecHealth == HealthInit /\ [][HealthNext]_vars

(* The caching servers under the scheduling of the event loop: a promise  *)
(* that can settle does settle, and the continuation waiting for it runs. *)

MaxLiveReqs == 2

LiveShapes ==
    {[inb |-> InbPlain, hdr |-> "undefined"], [inb |-> InbPlain, hdr |-> "hdrkey"]}

LiveInit == Init /\ variant \in {"fixed", "middleware"}

LiveNext ==
    \/ FixedStep(LiveShapes, MaxLiveReqs)
    \/ MiddlewareStep(LiveShapes, MaxLiveReqs)
    \/ Tick

Settles(i) ==
    \/ FixedFetchSettled(i) \/ FixedTextSettled(i) \/ FixedJsonSettled(i)
    \/ MiddlewareFetchSettled(i) \/ MiddlewareTextSettled(i)
    \/ MiddlewareJsonSettled(i)

LiveSpec ==
    /\ LiveInit
    /\ [][LiveNext]_vars
    /\ \A i \in 1..MaxLiveReqs : WF_vars(Settles(i))

----------------------------------------------------------------------------
(* Vocabulary of the claims *)

\* the servers that answer GET /v1/* from a cache
CachingVariants == {"fixed", "middleware"}

\* the cache key the running server derives for an inbound request
CacheKeyOf(inb) ==
    IF variant = "middleware" THEN OriginalUrl(inb) ELSE UpstreamUrl(inb)

\* the request has been answered and its handler has ended
Answered(r) == r.pc = "done" /\ Len(r.sent) = 1

\* the request was answered 200 with a body fetched from upstream for it
SuccessfulMiss(r) ==
    Answered(r) /\ r.lookup = "miss" /\ r.calls = 1 /\ r.sent[1].status = 200

\* the request carries a credential the server can use, or the environment does
HeaderPresent(r) == r.hdr # "undefined"
HeaderUsable(r) == r.hdr # "undefined" /\ r.hdr # ""
EnvConfigured == API_KEY # "undefined"

----------------------------------------------------------------------------
(* C1 *)

\* C1 as stated: whenever a GET /v1/X?q=Y that was already answered is issued
\* again, headers and all, within CACHE_DURATION of the first call, the second
\* call makes no upstream call and is answered with the payload the first
\* call was answered with.
C1_AsStated ==
    [][\A i \in 1..Len(reqs) :
         ( /\ variant \in CachingVariants
           /\ Len(reqs') = Len(reqs) + 1
           /\ reqs[i].pc = "done"
           /\ reqs'[Len(reqs')].inb = reqs[i].inb
           /\ reqs'[Len(reqs')].hdr = reqs[i].hdr
           /\ now - reqs[i].issuedAt < CACHE_DURATION )
         => ( /\ reqs'[Len(reqs')].calls = 0
              /\ Len(reqs'[Len(reqs')].sent) = 1
              /\ reqs'[Len(reqs')].sent[1].body = reqs[i].sent[1].body )]_vars

\* C1 amended: when the first call was a successful miss and the entry it
\* stored is still the one in the store (no clear, no later write for the
\* key), a repeat issued within CACHE_DURATION of the first call makes no
\* upstream call and is answered 200 with the payload of the first call.
C1_RepeatWithinTtlIsHit ==
    [][\A i \in 1..Len(reqs) :
         ( /\ variant \in CachingVariants
           /\ Len(reqs') = Len(reqs) + 1
           /\ SuccessfulMiss(reqs[i])
           /\ CacheKeyOf(reqs[i].inb) \in DOMAIN cache
           /\ cache[CacheKeyOf(reqs[i].inb)].by = i
           /\ reqs'[Len(reqs')].inb = reqs[i].inb
           /\ now - reqs[i].issuedAt < CACHE_DURATION )
         => ( /\ reqs'[Len(reqs')].calls = 0
              /\ reqs'[Len(reqs')].pc = "done"
              /\ reqs'[Len(reqs')].sent =
                    <<[status |-> 200, body |-> reqs[i].sent[1].body]>> )]_vars

\* C1 witness: a repeat, issued later than the first call and within its
\* window, was served from the entry the first call stored
C1_Witness ==
    \E i, j \in 1..Len(reqs) :
        /\ variant \in CachingVariants
        /\ i < j
        /\ SuccessfulMiss(reqs[i])
        /\ reqs[j].inb = reqs[i].inb
        /\ reqs[j].issuedAt > reqs[i].issuedAt
        /\ reqs[j].issuedAt - reqs[i].issuedAt < CACHE_DURATION
        /\ Answered(reqs[j]) /\ reqs[j].lookup = "hit" /\ reqs[j].calls = 0
        /\ reqs[j].sent[1] = reqs[i].sent[1]

----------------------------------------------------------------------------
(* C2 *)

\* C2 as stated: whenever a GET /v1/X?q=Y that was already answered is issued
\* again, with the same usable credential, more than CACHE_DURATION after the
\* first call was issued, the second call triggers an upstream call.
C2_AsStated ==
    [][\A i \in 1..Len(reqs) :
         ( /\ variant = "fixed"
           /\ Len(reqs') = Len(reqs) + 1
           /\ reqs[i].pc = "done"
           /\ reqs'[Len(reqs')].inb = reqs[i].inb
           /\ reqs'[Len(reqs')].hdr = reqs[i].hdr
           /\ (HeaderUsable(reqs[i]) \/ EnvConfigured)
           /\ now - reqs[i].issuedAt > CACHE_DURATION )
         => reqs'[Len(reqs')].calls = 1]_vars

\* C2 amended: the interval counts from the moment the entry was stored, not
\* from the moment the first call was issued.  A repeat of an answered GET that
\* arrives more than CACHE_DURATION after the entry for its key was last
\* stored (or when no entry is stored), with a usable credential, triggers
\* exactly one upstream call, to the URL of the request.
C2_RepeatAfterTtlIsMiss ==
    [][\A i \in 1..Len(reqs) :
         ( /\ variant = "fixed"
           /\ Len(reqs') = Len(reqs) + 1
           /\ reqs[i].pc = "done"
           /\ reqs'[Len(reqs')].inb = reqs[i].inb
           /\ (HeaderUsable(reqs'[Len(reqs')]) \/ EnvConfigured)
           /\ \/ CacheKeyOf(reqs[i].inb) \notin DOMAIN cache
              \/ now - cache[CacheKeyOf(reqs[i].inb)].timestamp > CACHE_DURATION )
         => ( /\ reqs'[Len(reqs')].calls = 1
              /\ reqs'[Len(reqs')].pc = "fetch"
              /\ reqs'[Len(reqs')].url = UpstreamUrl(reqs[i].inb)
              /\ reqs'[Len(reqs')].sent = << >> )]_vars

\* C2 witness: the first call stored its answer; the repeat arrived more
\* than CACHE_DURATION after that store and is at the upstream
C2_Witness ==
    \E i, j \in 1..Len(reqs) :
        /\ variant = "fixed"
        /\ i < j
        /\ SuccessfulMiss(reqs[i])
        /\ reqs[j].inb = reqs[i].inb /\ reqs[j].hdr = reqs[i].hdr
        /\ CacheKeyOf(reqs[i].inb) \in DOMAIN cache
        /\ cache[CacheKeyOf(reqs[i].inb)].by = i
        /\ reqs[j].issuedAt - cache[CacheKeyOf(reqs[i].inb)].timestamp > CACHE_DURATION
        /\ reqs[j].pc = "fetch" /\ reqs[j].calls = 1

----------------------------------------------------------------------------
(* C3 *)

\* C3 as stated: when the first request to arrive after a POST /cache/clear
\* repeats a GET whose answer was in the cache when the clear ran, it triggers
\* an upstream call, whatever else was in flight when the clear ran.
C3_AsStated ==
    [][\A i \in 1..Len(reqs) :
         ( /\ variant = "fixed"
           /\ Len(reqs') = Len(reqs) + 1
           /\ lastClear.count >= 1
           /\ lastClear.n = Len(reqs)
           /\ i \in lastClear.wiped
           /\ reqs'[Len(reqs')].inb = reqs[i].inb
           /\ reqs'[Len(reqs')].hdr = reqs[i].hdr )
         => reqs'[Len(reqs')].calls = 1]_vars

\* C3 amended: the first request to arrive after a POST /cache/clear that
\* repeats a GET whose answer the clear removed triggers an upstream call,
\* provided none of the requests that were in flight when the
\* clear ran has stored its answer between the clear and the repeat.
C3_RepeatAfterClearIsMiss ==
    [][\A i \in 1..Len(reqs) :
         ( /\ variant = "fixed"
           /\ Len(reqs') = Len(reqs) + 1
           /\ lastClear.count >= 1
           /\ lastClear.n = Len(reqs)
           /\ i \in lastClear.wiped
           /\ reqs'[Len(reqs')].inb = reqs[i].inb
           /\ reqs'[Len(reqs')].hdr = reqs[i].hdr
           /\ \A k \in lastClear.inflight : ~SuccessfulMiss(reqs[k]) )
         => ( /\ reqs'[Len(reqs')].calls = 1
              /\ reqs'[Len(reqs')].pc = "fetch"
              /\ reqs'[Len(reqs')].lookup = "miss" )]_vars

\* C3 witness: request 1 was cached, request 2 for the same key was in flight
\* when the clear ran and still is, request 3 repeats request 1 and is at the
\* upstream
C3_Witness ==
    /\ variant = "fixed"
    /\ Len(reqs) = 3
    /\ lastClear.count = 1 /\ lastClear.n = 2
    /\ lastClear.wiped = {1} /\ lastClear.inflight = {2}
    /\ reqs[2].inb = reqs[1].inb /\ reqs[2].pc # "done"
    /\ reqs[3].inb = reqs[1].inb /\ reqs[3].hdr = reqs[1].hdr
    /\ reqs[3].calls = 1 /\ reqs[3].pc = "fetch"

----------------------------------------------------------------------------
(* C4 *)

\* C4 as stated: a GET /v1/* without X-API-Key header, on a server without
\* environment key, is answered 401 missing_api_key and makes no upstream
\* call, whatever the cache holds.
C4_AsStated ==
    \A i \in 1..Len(reqs) :
        (reqs[i].hdr = "undefined" /\ API_KEY = "undefined")
        => ( /\ reqs[i].calls = 0
             /\ Len(reqs[i].sent) = 1
             /\ reqs[i].sent[1].status = 401
             /\ reqs[i].sent[1].body.error = "missing_api_key" )

----------------------------------------------------------------------------
(* C5 *)

\* C5 as stated: when the upstream answered a request with a non-success
\* status S and a body B, the caller is answered with status S, error kind
\* api_error and message B.
C5_AsStated ==
    \A i \in 1..Len(reqs) :
        ( /\ variant \in {"fixed", "simple"}
          /\ reqs[i].pc = "done"
          /\ reqs[i].upStatus # 0 /\ ~(reqs[i].upStatus \in 200..299)
          /\ reqs[i].upBody \in {BodyRetry, BodyHtml} )
        => ( /\ Len(reqs[i].sent) = 1
             /\ reqs[i].sent[1].status = reqs[i].upStatus
             /\ reqs[i].sent[1].body.error = "api_error"
             /\ reqs[i].sent[1].body.message = reqs[i].upBody )

----------------------------------------------------------------------------
(* C6 *)

\* C6: on the fixed server, when the upstream answered a request with status
\* 200 and a body that is not JSON, the caller is answered 500 with error
\* kind proxy_error.
C6_MalformedBodyIsProxyError ==
    \A i \in 1..Len(reqs) :
        ( /\ variant = "fixed"
          /\ reqs[i].pc = "done"
          /\ reqs[i].upStatus = 200
          /\ reqs[i].upBody = BodyHtml )
        => ( /\ Len(reqs[i].sent) = 1
             /\ reqs[i].sent[1].status = 500
             /\ reqs[i].sent[1].body.error = "proxy_error" )

\* C6 witness: a miss whose upstream answer was 200 with an HTML body has
\* been answered 500 proxy_error with the parser's message
C6_Witness ==
    \E i \in 1..Len(reqs) :
        /\ variant = "fixed"
        /\ reqs[i].pc = "done" /\ reqs[i].lookup = "miss"
        /\ reqs[i].upStatus = 200 /\ reqs[i].upBody = BodyHtml
        /\ reqs[i].sent = <<[status |-> 500, body |-> ProxyErrorEnvelope(JsonMessage)]>>

----------------------------------------------------------------------------
(* C7 *)

\* C7 as stated: a step in which a GET /v1/* is answered changes the cache
\* only if the answer is that of a successful miss; a hit, a 401, an
\* api_error and a proxy_error answer leave the cache as it was.
C7_AsStated ==
    [][\A i \in 1..Len(reqs') :
         ( /\ variant \in CachingVariants
           /\ i > Len(reqs) \/ reqs[i].pc # "done"
           /\ reqs'[i].pc = "done"
           /\ ~SuccessfulMiss(reqs'[i]) )
         => cache' = cache]_vars

----------------------------------------------------------------------------
(* C8 *)

\* what a caller may receive: a 200 payload or one of the three envelopes
WellFormed(resp) ==
    \/ resp.status = 200
    \/ resp.body.error \in {"missing_api_key", "api_error", "proxy_error"}

\* no request is answered twice, and a finished handler has answered once
AnsweredAtMostOnce ==
    \A i \in 1..Len(reqs) :
        /\ Len(reqs[i].sent) <= 1
        /\ reqs[i].pc = "done" => Len(reqs[i].sent) = 1
        /\ Len(reqs[i].sent) = 1 => WellFormed(reqs[i].sent[1])

\* C8 as stated: every request received is eventually answered, exactly once
\* and with a well-formed response, as long as its upstream call settles.
C8_AsStated ==
    /\ []AnsweredAtMostOnce
    /\ \A i \in 1..MaxLiveReqs :
          (Len(reqs) >= i) ~> (Len(reqs) >= i /\ Answered(reqs[i]))

\* C8 amended: every request received is answered at most once, with a 200
\* payload or a missing_api_key, api_error or proxy_error envelope, and is
\* eventually answered as long as its upstream call settles and no
\* termination signal ends the process first; a request in flight when
\* SIGTERM arrives is never answered.
C8_AnsweredUnlessTerminated ==
    /\ []AnsweredAtMostOnce
    /\ \A i \in 1..MaxLiveReqs :
          (Len(reqs) >= i) ~> (Len(reqs) >= i /\ (Answered(reqs[i]) \/ exited))

\* C8 witness: a request whose upstream call failed or whose upstream body
\* was malformed has been answered, and the process is still running
C8_Witness ==
    \E i \in 1..Len(reqs) :
        /\ variant \in CachingVariants
        /\ ~exited
        /\ Answered(reqs[i]) /\ reqs[i].calls = 1
        /\ reqs[i].sent[1].status = 500
        /\ reqs[i].sent[1].body.error = "proxy_error"

----------------------------------------------------------------------------
(* C9 *)

\* C9: on the fixed server every request has made at most one upstream call:
\* none after a cache hit, none when no credential resolves, exactly one after
\* a miss with a credential, and not a second one after the upstream failed.
C9_AtMostOneUpstreamCall ==
    \A i \in 1..Len(reqs) :
        variant = "fixed"
        => ( /\ reqs[i].calls <= 1
             /\ reqs[i].lookup = "hit" => reqs[i].calls = 0
             /\ (reqs[i].lookup = "miss" /\ ~(HeaderUsable(reqs[i]) \/ EnvConfigured))
                    => reqs[i].calls = 0
             /\ (reqs[i].lookup = "miss" /\ (HeaderUsable(reqs[i]) \/ EnvConfigured))
                    => reqs[i].calls = 1 )

\* C9 witness: the upstream call of a request failed, the request was
\* answered, and one call is all it made
C9_Witness ==
    \E i \in 1..Len(reqs) :
        /\ variant = "fixed"
        /\ Answered(reqs[i]) /\ reqs[i].lookup = "miss"
        /\ reqs[i].sent[1].status = 500 /\ reqs[i].upStatus = 0
        /\ reqs[i].calls = 1

----------------------------------------------------------------------------
(* C10 *)

\* C10 as stated: the credential sent with an upstream call is the request's
\* X-API-Key header when the request carries one, and the environment key
\* otherwise.
C10_AsStated ==
    \A i \in 1..Len(reqs) :
        (variant \in CachingVariants /\ reqs[i].calls >= 1)
        => reqs[i].cred = (IF HeaderUsable(reqs[i]) THEN reqs[i].hdr ELSE API_KEY)

----------------------------------------------------------------------------
(* C11 *)

\* the requests answered 200 from an upstream answer fetched for them
SuccessfulMisses == {i \in 1..Len(reqs) : SuccessfulMiss(reqs[i])}

\* C11: when GET /health is answered and no clear has run since start-up, and
\* the N successful cache misses so far were for N distinct keys, the answer
\* is 200 with cache_size = N.
C11_HealthCountsEntries ==
    [][( /\ variant = "fixed"
         /\ Len(reqs') = Len(reqs) + 1
         /\ reqs'[Len(reqs')].inb = InbHealth
         /\ lastClear.count = 0
         /\ \A i, j \in SuccessfulMisses :
               i # j => UpstreamUrl(reqs[i].inb) # UpstreamUrl(reqs[j].inb) )
       => ( /\ reqs'[Len(reqs')].pc = "done"
            /\ Len(reqs'[Len(reqs')].sent) = 1
            /\ reqs'[Len(reqs')].sent[1].status = 200
            /\ reqs'[Len(reqs')].sent[1].body.cache_size
                  = Cardinality(SuccessfulMisses) )]_vars

\* C11 witness: two successful misses on two keys, the first of them stored
\* CACHE_DURATION ago or earlier, then a health answer reporting 2
C11_Witness ==
    /\ variant = "fixed"
    /\ Len(reqs) = 3
    /\ lastClear.count = 0
    /\ SuccessfulMiss(reqs[1]) /\ SuccessfulMiss(reqs[2])
    /\ UpstreamUrl(reqs[1].inb) # UpstreamUrl(reqs[2].inb)
    /\ reqs[3].inb = InbHealth
    /\ reqs[3].issuedAt - cache[UpstreamUrl(reqs[1].inb)].timestamp >= CACHE_DURATION
    /\ reqs[3].sent[1].body.cache_size = 2

----------------------------------------------------------------------------
(* C12 *)

\* C12: whenever a request completes as a successful miss, concurrent misses
\* for the same key included, the store afterwards holds one entry for its
\* key, with the payload this request was answered with and the time of this
\* store, and every entry for another key is as it was.
C12_LastStoreWins ==
    [][\A i \in 1..Len(reqs) :
         ( /\ variant = "fixed"
           /\ reqs[i].pc # "done"
           /\ SuccessfulMiss(reqs'[i]) )
         => LET key == UpstreamUrl(reqs[i].inb)
            IN /\ DOMAIN cache' = DOMAIN cache \cup {key}
               /\ cache'[key] = [data |-> reqs'[i].sent[1].body,
                                 timestamp |-> now, by |-> i]
               /\ \A k \in DOMAIN cache \ {key} : cache'[k] = cache[k]]_vars

\* C12 witness: with the clock standing still and no clear, two requests for
\* one key were both misses, both answered 200 with different payloads, the
\* store holds the payload of one of them, and the entry of a third request
\* for another key is in the store
C12_Witness ==
    \E i, j, k \in 1..Len(reqs) :
        /\ variant = "fixed" /\ ticks = 0 /\ lastClear.count = 0
        /\ i < j
        /\ SuccessfulMiss(reqs[i]) /\ SuccessfulMiss(reqs[j]) /\ SuccessfulMiss(reqs[k])
        /\ reqs[i].inb = reqs[j].inb
        /\ reqs[i].sent[1].body # reqs[j].sent[1].body
        /\ UpstreamUrl(reqs[k].inb) # UpstreamUrl(reqs[i].inb)
        /\ DOMAIN cache = {UpstreamUrl(reqs[i].inb), UpstreamUrl(reqs[k].inb)}
        /\ cache[UpstreamUrl(reqs[i].inb)].by = i
        /\ cache[UpstreamUrl(reqs[i].inb)].data = reqs[i].sent[1].body
        /\ cache[UpstreamUrl(reqs[k].inb)].by = k

----------------------------------------------------------------------------
(* C13 *)

----------------------------------------------------------------------------
(* C14 *)

\* C14 as stated: when the upstream answered a request with a non-success
\* status S and reading the error body failed, the caller is answered with
\* status S and an api_error envelope whose message is the empty body.
C14_AsStated ==
    \A i \in 1..Len(reqs) :
        ( /\ variant = "fixed"
          /\ reqs[i].pc = "done"
          /\ reqs[i].upStatus # 0 /\ ~ResponseOk(reqs[i].upStatus)
          /\ reqs[i].upBody = ReadFailure )
        => ( /\ Len(reqs[i].sent) = 1
             /\ reqs[i].sent[1].status = reqs[i].upStatus
             /\ reqs[i].sent[1].body.error = "api_error"
             /\ reqs[i].sent[1].body.message = "" )

----------------------------------------------------------------------------
(* C15 *)

----------------------------------------------------------------------------
(* C16 *)

\* C16: on the fixed server the arrival of a GET /v1/* (its lookup, also one
\* that finds a stale entry) leaves the store as it was; any step either
\* keeps every key of the store or empties the store, and only POST
\* /cache/clear and the shutdown empty it.
C16_NoSingleRemoval ==
    [][(variant = "fixed")
       => ( /\ Len(reqs') = Len(reqs) + 1 => cache' = cache
            /\ \/ DOMAIN cache \subseteq DOMAIN cache'
               \/ /\ cache' = << >>
                  /\ lastClear'.count = lastClear.count + 1 \/ exited' )]_vars

\* C16 witness: a request found the entry for its key older than
\* CACHE_DURATION, went to the upstream, which failed, and the stale entry
\* is still in the store
C16_Witness ==
    \E j \in 1..Len(reqs) :
        /\ variant = "fixed"
        /\ UpstreamUrl(reqs[j].inb) \in DOMAIN cache
        /\ cache[UpstreamUrl(reqs[j].inb)].by < j
        /\ reqs[j].issuedAt - cache[UpstreamUrl(reqs[j].inb)].timestamp > CACHE_DURATION
        /\ reqs[j].lookup = "miss" /\ Answered(reqs[j])
        /\ reqs[j].sent[1].status = 500

----------------------------------------------------------------------------
(* C17 *)

\* path and query parameters of an inbound request, as express parses them
Parameters(inb) == [path |-> inb.path, query |-> QsParse(inb.pairs)]

\* C17 as stated: any two requests received have the same cache key iff
\* their paths and their query parameters are identical, a repeated
\* parameter name and a value with a comma included.
C17_AsStated ==
    \A i, j \in 1..Len(reqs) :
        variant \in CachingVariants
        => ( CacheKeyOf(reqs[i].inb) = CacheKeyOf(reqs[j].inb)
             <=> Parameters(reqs[i].inb) = Parameters(reqs[j].inb) )

----------------------------------------------------------------------------
(* C18 *)

\* C18: the step in which the process exits empties the store, exits with
\* code 0 and answers no request, in flight or not; once the process has
\* exited the store is empty and neither the store nor any request changes.
C18_SigtermClearsAndExits ==
    [][(variant \in CachingVariants)
       => ( /\ (~exited /\ exited')
                 => (cache' = << >> /\ exitCode' = 0 /\ reqs' = reqs)
            /\ exited
                 => (cache = << >> /\ UNCHANGED <<cache, reqs, exited>>) )]_vars

\* C18 witness: the process has exited with code 0 after a request had
\* stored its answer and while another was waiting for the upstream; the
\* store is empty and the waiting request has no answer
C18_Witness ==
    \E i, j \in 1..Len(reqs) :
        /\ variant \in CachingVariants
        /\ exited /\ exitCode = 0
        /\ lastClear.count = 0
        /\ SuccessfulMiss(reqs[i])
        /\ reqs[j].pc = "fetch" /\ reqs[j].sent = << >>
        /\ cache = << >>

----------------------------------------------------------------------------
(* C19 *)

\* C19 as stated: whenever a request is answered as a cache hit, the answer
\* is 200 with the stored payload, the entry was stored less than
\* CACHE_DURATION ago by a request for the same cache key whose upstream
\* answer had status 200 and this payload as its body, and the payload is
\* not an error envelope.
C19_AsStated ==
    [][( /\ variant \in CachingVariants
         /\ Len(reqs') = Len(reqs) + 1
         /\ reqs'[Len(reqs')].lookup = "hit" )
       => LET r == reqs'[Len(reqs')]
              entry == cache[CacheKeyOf(r.inb)]
              writer == reqs[entry.by]
          IN /\ r.sent = <<[status |-> 200, body |-> entry.data]>>
             /\ now - entry.timestamp < CACHE_DURATION
             /\ CacheKeyOf(writer.inb) = CacheKeyOf(r.inb)
             /\ "error" \notin DOMAIN entry.data
             /\ writer.upStatus = 200
             /\ JsonParse(writer.upBody) = [ok |-> TRUE, value |-> entry.data]]_vars

----------------------------------------------------------------------------
(* C20 *)

\* C20: on the fixed server a GET /v1/* that arrives while the entry for its
\* key is fresh is answered 200 with the stored payload, without upstream
\* call and without any credential being resolved, whatever its X-API-Key
\* header and whatever the environment key.
C20_HitIgnoresCredential ==
    [][\A hdr \in {"undefined", "", "hdrkey"} :
         ( /\ variant = "fixed"
           /\ Len(reqs') = Len(reqs) + 1
           /\ reqs'[Len(reqs')].hdr = hdr
           /\ UpstreamUrl(reqs'[Len(reqs')].inb) \in DOMAIN cache
           /\ now - cache[UpstreamUrl(reqs'[Len(reqs')].inb)].timestamp < CACHE_DURATION )
         => LET r == reqs'[Len(reqs')]
            IN /\ r.sent = <<[status |-> 200, body |-> cache[UpstreamUrl(r.inb)].data]>>
               /\ r.pc = "done"
               /\ r.calls = 0
               /\ r.cred = Undefined]_vars

\* C20 witness: with no environment key, a payload fetched with the
\* credential of one caller has been served to a caller without credential
C20_Witness ==
    \E i, j \in 1..Len(reqs) :
        /\ variant = "fixed"
        /\ API_KEY = Undefined
        /\ i < j
        /\ SuccessfulMiss(reqs[i]) /\ reqs[i].cred = "hdrkey"
        /\ reqs[j].hdr = Undefined
        /\ reqs[j].lookup = "hit" /\ reqs[j].calls = 0
        /\ reqs[j].sent = <<[status |-> 200, body |-> reqs[i].sent[1].body]>>

====
